---- MODULE Spec2Model ----
(***************************************************************************)
(* Model of uoul/go-dbx: the transaction orchestrator                      *)
(* (ExecuteInTransaction), the query executor (Query, parseDbResult,       *)
(* createFieldMap) and their Async variants.  The database layer (sql.DB,  *)
(* sql.Tx, sql.Rows) and async.Do are the environment: their answers are   *)
(* chosen nondeterministically.                                            *)
(***************************************************************************)
EXTENDS Integers, Sequences, FiniteSets, TLC

VARIABLES
    \* ---- ExecuteInTransaction ----
    tpc,        \* position inside ExecuteInTransaction
    opts,       \* the variadic opts argument
    tsf,        \* the scope function argument (its behaviour)
    txOpts,     \* the *sql.TxOptions handed to BeginTx
    txState,    \* state of the *sql.Tx handle
    calls,      \* calls made on the database layer / scope function, in order
    r,          \* local r: value returned by tsf
    retVal,     \* value returned by ExecuteInTransaction
    retErr,     \* error returned by ExecuteInTransaction
    panicking,  \* a panic raised by tsf is unwinding the stack
    pending,    \* writes issued on the open transaction
    committed,  \* writes made durable by a successful Commit
    \* ---- Query / parseDbResult ----
    qpc,        \* position inside Query / parseDbResult
    T,          \* the record shape Query is instantiated with
    cursorColumns, \* column names the cursor reports
    cursorRows, \* rows the cursor holds, in result-set order
    pos,        \* rows the cursor has yielded so far
    cursorErr,  \* the cursor's terminal error, rows.Err()
    closeCalls, \* number of rows.Close() calls
    columns,    \* local columns of parseDbResult
    result,     \* local result of parseDbResult
    rowFieldMap, \* local fieldMap of parseDbResult, as last built
    mapBuilt,   \* createFieldMap has been called for this shape and columns
    callNo,     \* number of the Query call in progress
    pRes,       \* slice returned by parseDbResult
    pErr,       \* error returned by parseDbResult
    qRet,       \* slice returned by Query
    qErr,       \* error returned by Query
    \* ---- QueryAsync / ExecuteInTransactionAsync ----
    mode,       \* "sync": the caller runs the call; "async": async.Do does
    handle,     \* the caller holds the async.Result
    delivered   \* the results sent on the async.Result so far

txVars == <<tpc, opts, tsf, txOpts, txState, calls, r, retVal, retErr,
            panicking, pending, committed>>

qVars == <<qpc, T, cursorColumns, cursorRows, pos, cursorErr, closeCalls,
           columns, result, rowFieldMap, mapBuilt, callNo, pRes, pErr, qRet,
           qErr>>

asyncVars == <<mode, handle, delivered>>

vars == <<txVars, qVars, asyncVars>>

(***************************************************************************)
(* Bounds                                                                  *)
(***************************************************************************)
MaxVal == 2       \* values of type T are 0..MaxVal, 0 is the zero value
MaxOpts == 2      \* at most this many sql.TxOptions are passed
MaxWrites == 1    \* writes the scope function issues on the transaction

Nil == "nil"
ZeroT == 0                       \* *new(T)
Values == 0..MaxVal
ScopeErrors == {"ErrScopeA", "ErrScopeB"}
NoOpts == "nilOpts"

\* A Go slice: the nil slice and an empty non-nil slice are different values.
NilSlice == [isNil |-> TRUE, elems |-> <<>>]
\* append(s, x): the result is never nil.
AppendSlice(s, x) == [isNil |-> FALSE, elems |-> Append(s.elems, x)]

\* Behaviours of a TransactionScopeFunction: it issues some writes on tx and
\* then returns (val, err) or panics.  A Go function may return a non-zero
\* value together with a non-nil error.
ScopeFunctions ==
    [writes : 0..MaxWrites, val : Values, err : {Nil} \cup ScopeErrors,
     panics : {FALSE}]
    \cup [writes : 0..MaxWrites, val : {ZeroT}, err : {Nil}, panics : {TRUE}]

OptsLists == UNION {[1..n -> {"optA", "optB"}] : n \in 0..MaxOpts}

\* make(map[string]any)
EmptyMap == [k \in {} |-> <<>>]

\* No Query call in progress.
QueryIdle ==
    /\ qpc = "idle"
    /\ T = <<>>
    /\ cursorColumns = <<>>
    /\ cursorRows = <<>>
    /\ pos = 0
    /\ cursorErr = Nil
    /\ closeCalls = 0
    /\ columns = <<>>
    /\ result = NilSlice
    /\ rowFieldMap = EmptyMap
    /\ mapBuilt = FALSE
    /\ callNo = 0
    /\ pRes = NilSlice
    /\ pErr = Nil
    /\ qRet = NilSlice
    /\ qErr = Nil

\* No ExecuteInTransaction call in progress.
TxIdle ==
    /\ tpc = "idle"
    /\ opts = <<>>
    /\ tsf = [writes |-> 0, val |-> ZeroT, err |-> Nil, panics |-> FALSE]
    /\ txOpts = NoOpts
    /\ txState = "NoTx"
    /\ calls = <<>>
    /\ r = ZeroT
    /\ retVal = ZeroT
    /\ retErr = Nil
    /\ panicking = FALSE
    /\ pending = 0
    /\ committed = 0

\* The call is made directly or through its Async variant.
Modes == {"sync", "async"}

InitTx ==
    /\ mode \in Modes
    /\ handle = FALSE
    /\ delivered = <<>>
    /\ tpc = IF mode = "sync" THEN "start" ELSE "async"
    /\ opts \in OptsLists
    /\ tsf \in ScopeFunctions
    /\ txOpts = NoOpts
    /\ txState = "NoTx"
    /\ calls = <<>>
    /\ r = ZeroT
    /\ retVal = ZeroT
    /\ retErr = Nil
    /\ panicking = FALSE
    /\ pending = 0
    /\ committed = 0
    /\ QueryIdle

\* part_002:49-58  txOpts selection, db.BeginTx, early return, defer
BeginTxIgnoresError ==
    /\ tpc = "start"
    /\ txOpts' = IF Len(opts) > 0 THEN opts[1] ELSE NoOpts
    /\ calls' = Append(calls, "BeginTx")
    /\ \E ok \in BOOLEAN :
         /\ txState' = IF ok THEN "Running" ELSE "NoTx"
         /\ tpc' = "scope"
         /\ UNCHANGED <<retVal, retErr>>
    /\ UNCHANGED <<opts, tsf, r, panicking, pending, committed>>
    /\ UNCHANGED <<qVars, asyncVars>>

BeginTx ==
    /\ tpc = "start"
    /\ txOpts' = IF Len(opts) > 0 THEN opts[1] ELSE NoOpts
    /\ calls' = Append(calls, "BeginTx")
    /\ \E ok \in BOOLEAN :
         IF ok
           THEN /\ txState' = "Running"
                /\ tpc' = "scope"
                /\ UNCHANGED <<retVal, retErr>>
           ELSE /\ txState' = "NoTx"
                /\ retVal' = ZeroT
                /\ retErr' = "ErrBegin"
                /\ tpc' = "returned"
    /\ UNCHANGED <<opts, tsf, r, panicking, pending, committed>>
    /\ UNCHANGED <<qVars, asyncVars>>

\* part_002:60-63  r, err := tsf(ctx, tx); on error return *new(T), err
RunScopeReturnsValueOnError ==
    /\ tpc = "scope"
    /\ calls' = Append(calls, "tsf")
    /\ pending' = pending + tsf.writes
    /\ IF tsf.panics
         THEN /\ panicking' = TRUE
              /\ tpc' = "deferred"
              /\ UNCHANGED <<r, retVal, retErr>>
         ELSE /\ r' = tsf.val
              /\ panicking' = FALSE
              /\ IF tsf.err # Nil
                   THEN /\ retVal' = tsf.val
                        /\ retErr' = tsf.err
                        /\ tpc' = "deferred"
                   ELSE /\ tpc' = "commit"
                        /\ UNCHANGED <<retVal, retErr>>
    /\ UNCHANGED <<opts, tsf, txOpts, txState, committed>>
    /\ UNCHANGED <<qVars, asyncVars>>

RunScopeSkipsDefer ==
    /\ tpc = "scope"
    /\ calls' = Append(calls, "tsf")
    /\ pending' = pending + tsf.writes
    /\ IF tsf.panics
         THEN /\ panicking' = TRUE
              /\ tpc' = "panicked"
              /\ UNCHANGED <<r, retVal, retErr>>
         ELSE /\ r' = tsf.val
              /\ panicking' = FALSE
              /\ IF tsf.err # Nil
                   THEN /\ retVal' = ZeroT
                        /\ retErr' = tsf.err
                        /\ tpc' = "returned"
                   ELSE /\ tpc' = "commit"
                        /\ UNCHANGED <<retVal, retErr>>
    /\ UNCHANGED <<opts, tsf, txOpts, txState, committed>>
    /\ UNCHANGED <<qVars, asyncVars>>

RunScopeCommitsOnError ==
    /\ tpc = "scope"
    /\ calls' = Append(calls, "tsf")
    /\ pending' = pending + tsf.writes
    /\ IF tsf.panics
         THEN /\ panicking' = TRUE
              /\ tpc' = "deferred"
              /\ UNCHANGED <<r, retVal, retErr>>
         ELSE /\ r' = tsf.val
              /\ panicking' = FALSE
              /\ tpc' = "commit"
              /\ UNCHANGED <<retVal, retErr>>
    /\ UNCHANGED <<opts, tsf, txOpts, txState, committed>>
    /\ UNCHANGED <<qVars, asyncVars>>

RunScope ==
    /\ tpc = "scope"
    /\ calls' = Append(calls, "tsf")
    /\ pending' = pending + tsf.writes
    /\ IF tsf.panics
         THEN /\ panicking' = TRUE
              /\ tpc' = "deferred"
              /\ UNCHANGED <<r, retVal, retErr>>
         ELSE /\ r' = tsf.val
              /\ panicking' = FALSE
              /\ IF tsf.err # Nil
                   THEN /\ retVal' = ZeroT
                        /\ retErr' = tsf.err
                        /\ tpc' = "deferred"
                   ELSE /\ tpc' = "commit"
                        /\ UNCHANGED <<retVal, retErr>>
    /\ UNCHANGED <<opts, tsf, txOpts, txState, committed>>
    /\ UNCHANGED <<qVars, asyncVars>>

\* Outcomes of tx.Commit(): success; failure that leaves the handle open
\* (context already cancelled); failure after the handle was closed.
CommitOutcomes == {"ok", "failOpen", "failClosed"}

\* part_002:65-69  tx.Commit(); on error return *new(T), err; else return r, nil
CommitSwallowsError ==
    /\ tpc = "commit"
    /\ calls' = Append(calls, "Commit")
    /\ \E out \in CommitOutcomes :
         /\ txState' = CASE out = "ok" -> "Committed"
                         [] out = "failOpen" -> "Running"
                         [] out = "failClosed" -> "CommitFailed"
         /\ committed' = IF out = "ok" THEN committed + pending ELSE committed
         /\ pending' = IF out = "failOpen" THEN pending ELSE 0
         /\ retVal' = r
         /\ retErr' = Nil
    /\ tpc' = "deferred"
    /\ UNCHANGED <<opts, tsf, txOpts, r, panicking>>
    /\ UNCHANGED <<qVars, asyncVars>>

CommitReturnsValueOnError ==
    /\ tpc = "commit"
    /\ calls' = Append(calls, "Commit")
    /\ \E out \in CommitOutcomes :
         /\ txState' = CASE out = "ok" -> "Committed"
                         [] out = "failOpen" -> "Running"
                         [] out = "failClosed" -> "CommitFailed"
         /\ committed' = IF out = "ok" THEN committed + pending ELSE committed
         /\ pending' = IF out = "failOpen" THEN pending ELSE 0
         /\ retVal' = r
         /\ retErr' = IF out = "ok" THEN Nil ELSE "ErrCommit"
    /\ tpc' = "deferred"
    /\ UNCHANGED <<opts, tsf, txOpts, r, panicking>>
    /\ UNCHANGED <<qVars, asyncVars>>

Commit ==
    /\ tpc = "commit"
    /\ calls' = Append(calls, "Commit")
    /\ \E out \in CommitOutcomes :
         /\ txState' = CASE out = "ok" -> "Committed"
                         [] out = "failOpen" -> "Running"
                         [] out = "failClosed" -> "CommitFailed"
         /\ committed' = IF out = "ok" THEN committed + pending ELSE committed
         /\ pending' = IF out = "failOpen" THEN pending ELSE 0
         /\ IF out = "ok"
              THEN /\ retVal' = r
                   /\ retErr' = Nil
              ELSE /\ retVal' = ZeroT
                   /\ retErr' = "ErrCommit"
    /\ tpc' = "deferred"
    /\ UNCHANGED <<opts, tsf, txOpts, r, panicking>>
    /\ UNCHANGED <<qVars, asyncVars>>

\* part_002:58  defer tx.Rollback(): runs when the function returns or
\* unwinds.  Rollback on a handle that is already closed changes nothing
\* (sql.ErrTxDone, ignored by the deferred call).
DeferredRollbackOnlyOnError ==
    /\ tpc = "deferred"
    /\ IF retErr # Nil \/ panicking
         THEN /\ calls' = Append(calls, "Rollback")
              /\ IF txState = "Running"
                   THEN txState' = "RolledBack" /\ pending' = 0
                   ELSE UNCHANGED <<txState, pending>>
         ELSE UNCHANGED <<calls, txState, pending>>
    /\ tpc' = IF panicking THEN "panicked" ELSE "returned"
    /\ UNCHANGED <<opts, tsf, txOpts, r, retVal, retErr, panicking, committed>>
    /\ UNCHANGED <<qVars, asyncVars>>

DeferredRollback ==
    /\ tpc = "deferred"
    /\ calls' = Append(calls, "Rollback")
    /\ IF txState = "Running"
         THEN txState' = "RolledBack" /\ pending' = 0
         ELSE UNCHANGED <<txState, pending>>
    /\ tpc' = IF panicking THEN "panicked" ELSE "returned"
    /\ UNCHANGED <<opts, tsf, txOpts, r, retVal, retErr, panicking, committed>>
    /\ UNCHANGED <<qVars, asyncVars>>


(***************************************************************************)
(* Record mapper (Helper.go).  A string is a sequence of one-character     *)
(* strings; "" is <<>>.                                                    *)
(***************************************************************************)
UpperChars == <<"A", "B", "C", "D", "E", "F", "G", "H", "I", "J", "K", "L", "M",
                "N", "O", "P", "Q", "R", "S", "T", "U", "V", "W", "X", "Y", "Z">>
LowerChars == <<"a", "b", "c", "d", "e", "f", "g", "h", "i", "j", "k", "l", "m",
                "n", "o", "p", "q", "r", "s", "t", "u", "v", "w", "x", "y", "z">>

\* strings.ToLower
ToLower(str) ==
    [i \in 1..Len(str) |->
        IF \E k \in 1..Len(UpperChars) : UpperChars[k] = str[i]
          THEN LowerChars[CHOOSE k \in 1..Len(UpperChars) : UpperChars[k] = str[i]]
          ELSE str[i]]

\* A struct field as reflect sees it: name, db tag, kind, Anonymous, CanSet,
\* and for a struct kind its own fields.
Leaf(name, tag) ==
    [name |-> name, tag |-> tag, kind |-> "leaf", anonymous |-> FALSE,
     settable |-> TRUE, fields |-> <<>>]
Unexported(name, tag) ==
    [name |-> name, tag |-> tag, kind |-> "leaf", anonymous |-> FALSE,
     settable |-> FALSE, fields |-> <<>>]
Struct(name, tag, fields) ==
    [name |-> name, tag |-> tag, kind |-> "struct", anonymous |-> FALSE,
     settable |-> TRUE, fields |-> fields]
Embedded(name, tag, fields) ==
    [name |-> name, tag |-> tag, kind |-> "struct", anonymous |-> TRUE,
     settable |-> TRUE, fields |-> fields]

\* type User struct { ID int `db:"id"`; Name string `db:"name"` }
User == <<Leaf(<<"I", "D">>, <<"i", "d">>), Leaf(<<"N", "a", "m", "e">>, <<"n", "a", "m", "e">>)>>
\* README: type UserWithAddress struct { ID int `db:"id"`;
\*           Address Address `db:"address_"` },  Address { Street `db:"street"` }
UserWithAddress ==
    <<Leaf(<<"I", "D">>, <<"i", "d">>),
      Struct(<<"A", "d", "d", "r", "e", "s", "s">>, <<"a", "d", "d", "r", "e", "s", "s", "_">>, <<Leaf(<<"S", "t", "r", "e", "e", "t">>, <<"s", "t", "r", "e", "e", "t">>)>>)>>
\* type Account struct { Base `db:"base"`; Home Home; secret int }
\*   Base { ID int `db:"id"` }, Home { City string; Geo Geo `db:"geo"` },
\*   Geo { Lat int }
Account ==
    <<Embedded(<<"B", "a", "s", "e">>, <<"b", "a", "s", "e">>, <<Leaf(<<"I", "D">>, <<"i", "d">>)>>),
      Struct(<<"H", "o", "m", "e">>, <<>>,
             <<Leaf(<<"C", "i", "t", "y">>, <<>>), Struct(<<"G", "e", "o">>, <<"g", "e", "o">>, <<Leaf(<<"L", "a", "t">>, <<>>)>>)>>),
      Unexported(<<"s", "e", "c", "r", "e", "t">>, <<>>)>>
\* type Dup struct { Base; ID int `db:"id"` },  Base { ID int `db:"id"` }
Dup == <<Embedded(<<"B", "a", "s", "e">>, <<>>, <<Leaf(<<"I", "D">>, <<"i", "d">>)>>), Leaf(<<"I", "D">>, <<"i", "d">>)>>

\* type Twin struct { ID int `db:"id"`; Base },  Base { ID int `db:"id"` }
Twin == <<Leaf(<<"I", "D">>, <<"i", "d">>), Embedded(<<"B", "a", "s", "e">>, <<>>, <<Leaf(<<"I", "D">>, <<"i", "d">>)>>)>>

Shapes == {User, UserWithAddress, Account, Dup, Twin}

ColumnLists ==
    { <<<<"i", "d">>, <<"n", "a", "m", "e">>>>,
      <<<<"i", "d">>, <<"a", "d", "d", "r", "e", "s", "s", "_", "s", "t", "r", "e", "e", "t">>>>,
      <<<<"i", "d">>, <<"a", "d", "d", "r", "e", "s", "s", "_", "_", "s", "t", "r", "e", "e", "t">>>>,
      <<<<"h", "o", "m", "e", "_", "c", "i", "t", "y">>, <<"h", "o", "m", "e", "_", "g", "e", "o", "_", "l", "a", "t">>>>,
      <<<<"e", "x", "t", "r", "a">>, <<"i", "d">>>> }

\* for k, v := range nestedMap { fieldMap[k] = v }
MergeMap(fieldMap, nestedMap) ==
    [k \in DOMAIN fieldMap \cup DOMAIN nestedMap |->
        IF k \in DOMAIN nestedMap THEN nestedMap[k] ELSE fieldMap[k]]

\* fieldMap[k] = v
PutMapKeepsFirst(fieldMap, k, v) ==
    [x \in DOMAIN fieldMap \cup {k} |->
        IF x \in DOMAIN fieldMap THEN fieldMap[x] ELSE v]

PutMap(fieldMap, k, v) ==
    [x \in DOMAIN fieldMap \cup {k} |-> IF x = k THEN v ELSE fieldMap[x]]

\* A reflect.Value of struct kind: its type's fields and its address, the
\* path of field indices from the record's root.
RECURSIVE createFieldMap(_, _, _)
RECURSIVE createFieldMapLoop(_, _, _, _, _)

RECURSIVE createFieldMapLoopPrefixesEmbedded(_, _, _, _, _)

\* Helper.go:50-101  the body of the loop over val.NumField(), from field i
createFieldMapLoopPrefixesEmbedded(val, cols, prefix, i, fieldMap) ==
    IF i > Len(val.typ) THEN fieldMap
    ELSE
      LET fieldType == val.typ[i]
          field == [typ |-> fieldType.fields, addr |-> Append(val.addr, i)]
          fieldTag == fieldType.tag
          lowered == IF fieldTag = <<>> THEN ToLower(fieldType.name) ELSE fieldTag
          prefixed == IF prefix # <<>> THEN prefix \o <<"_">> \o lowered ELSE lowered
      IN  IF ~fieldType.settable
            THEN createFieldMapLoopPrefixesEmbedded(val, cols, prefix, i + 1,
                     fieldMap)
          ELSE IF fieldType.kind = "struct"
            THEN createFieldMapLoopPrefixesEmbedded(val, cols, prefix, i + 1,
                     MergeMap(fieldMap, createFieldMap(field, cols, prefixed)))
          ELSE createFieldMapLoopPrefixesEmbedded(val, cols, prefix, i + 1,
                     PutMap(fieldMap, prefixed, field.addr))

createFieldMapLoop(val, cols, prefix, i, fieldMap) ==
    IF i > Len(val.typ) THEN fieldMap
    ELSE
      LET fieldType == val.typ[i]
          field == [typ |-> fieldType.fields, addr |-> Append(val.addr, i)]
          fieldTag == fieldType.tag
          lowered == IF fieldTag = <<>> THEN ToLower(fieldType.name) ELSE fieldTag
          prefixed == IF prefix # <<>> THEN prefix \o <<"_">> \o lowered ELSE lowered
      IN  IF ~fieldType.settable
            THEN createFieldMapLoop(val, cols, prefix, i + 1, fieldMap)
          ELSE IF fieldType.kind = "struct" /\ fieldType.anonymous
            THEN createFieldMapLoop(val, cols, prefix, i + 1,
                     MergeMap(fieldMap, createFieldMap(field, cols, prefix)))
          ELSE IF fieldType.kind = "struct"
            THEN createFieldMapLoop(val, cols, prefix, i + 1,
                     MergeMap(fieldMap, createFieldMap(field, cols, prefixed)))
          ELSE createFieldMapLoop(val, cols, prefix, i + 1,
                     PutMap(fieldMap, prefixed, field.addr))

\* Helper.go:47-103
createFieldMap(val, cols, prefix) ==
    createFieldMapLoop(val, cols, prefix, 1, EmptyMap)

\* Addresses of all leaf fields of a value (settable or not).
RECURSIVE LeafAddrs(_, _)
LeafAddrs(typ, addr) ==
    UNION { IF typ[i].kind = "struct"
              THEN LeafAddrs(typ[i].fields, Append(addr, i))
              ELSE {Append(addr, i)} : i \in 1..Len(typ) }

\* var item T: every field at its zero value
ZeroItem(typ) == [a \in LeafAddrs(typ, <<>>) |-> 0]

Dummy == <<0>>

\* Helper.go:27-37  scan destinations, one per column
ScanDest(fieldMap, cols) ==
    [i \in 1..Len(cols) |->
        IF cols[i] \in DOMAIN fieldMap THEN fieldMap[cols[i]] ELSE Dummy]

\* A column value that no typed field accepts (a text where a number is
\* expected); a destination of type *any accepts every value.
Unconvertible == -1

\* rows.Scan(scanDest...) reports a conversion error: some value cannot be
\* converted to the destination it is scanned into.  The dummy destinations
\* of Helper.go:33-35 are of type *any.
ScanFailsTypedDummy(scanDest, row) ==
    \E i \in 1..Len(scanDest) : row[i] = Unconvertible

ScanFails(scanDest, row) ==
    \E i \in 1..Len(scanDest) :
        row[i] = Unconvertible /\ scanDest[i] # Dummy

\* rows.Scan(scanDest...): column i of the row is stored through scanDest[i],
\* left to right.
RECURSIVE ScanFrom(_, _, _, _)
ScanFrom(item, scanDest, row, i) ==
    IF i > Len(scanDest) THEN item
    ELSE ScanFrom(IF scanDest[i] = Dummy THEN item
                  ELSE [item EXCEPT ![scanDest[i]] = row[i]],
                  scanDest, row, i + 1)

\* Helper.go:21-39  the record built from one row
ScanItem(typ, cols, row) ==
    LET fieldMap == createFieldMap([typ |-> typ, addr |-> <<>>], cols, <<>>)
    IN  ScanFrom(ZeroItem(typ), ScanDest(fieldMap, cols), row, 1)

(***************************************************************************)
(* Query (Query.go) and parseDbResult (Helper.go)                          *)
(***************************************************************************)
MaxRows == 2      \* rows a cursor holds at most
MaxCalls == 2     \* Query calls made one after the other

RowSets(cols) ==
    UNION {[1..n -> [1..Len(cols) -> (1..MaxVal) \cup {Unconvertible}]] :
              n \in 0..MaxRows}

InitQ ==
    /\ mode \in Modes
    /\ handle = FALSE
    /\ delivered = <<>>
    /\ qpc = IF mode = "sync" THEN "start" ELSE "async"
    /\ T \in Shapes
    /\ cursorColumns \in ColumnLists
    /\ cursorRows = <<>>
    /\ pos = 0
    /\ cursorErr = Nil
    /\ closeCalls = 0
    /\ columns = <<>>
    /\ result = NilSlice
    /\ rowFieldMap = EmptyMap
    /\ mapBuilt = FALSE
    /\ callNo = 1
    /\ pRes = NilSlice
    /\ pErr = Nil
    /\ qRet = NilSlice
    /\ qErr = Nil
    /\ TxIdle

\* Query.go:29-33  conn.QueryContext returns a cursor over some rows, or
\* fails; on error return nil, err; defer Close
QueryContext ==
    /\ qpc = "start"
    /\ \E ok \in BOOLEAN :
         IF ok
           THEN /\ cursorRows' \in RowSets(cursorColumns)
                /\ qpc' = "columns"
                /\ UNCHANGED <<qRet, qErr>>
           ELSE /\ cursorRows' = <<>>
                /\ qRet' = NilSlice
                /\ qErr' = "ErrQuery"
                /\ qpc' = "returned"
    /\ UNCHANGED <<T, cursorColumns, pos, cursorErr, closeCalls,
                   columns, result, rowFieldMap, mapBuilt, pRes, pErr>>
    /\ UNCHANGED <<callNo, txVars, asyncVars>>

\* Helper.go:15-19  rows.Columns(); on error return nil, err; var result []T
Columns ==
    /\ qpc = "columns"
    /\ \E ok \in BOOLEAN :
         IF ok
           THEN /\ columns' = cursorColumns
                /\ result' = NilSlice
                /\ qpc' = "next"
                /\ UNCHANGED <<pRes, pErr>>
           ELSE /\ pRes' = NilSlice
                /\ pErr' = "ErrColumns"
                /\ qpc' = "parsed"
                /\ UNCHANGED <<columns, result>>
    /\ UNCHANGED <<T, cursorColumns, cursorRows, pos, cursorErr, closeCalls,
                   rowFieldMap, mapBuilt, qRet, qErr>>
    /\ UNCHANGED <<callNo, txVars, asyncVars>>

\* Helper.go:20  rows.Next(): yields the next row, or stops because the
\* cursor is exhausted or because it failed (then rows.Err() is set).
NextRow ==
    /\ qpc = "next"
    /\ \/ /\ pos < Len(cursorRows)
          /\ pos' = pos + 1
          /\ qpc' = "scan"
          /\ UNCHANGED cursorErr
       \/ /\ pos = Len(cursorRows)
          /\ qpc' = "err"
          /\ UNCHANGED <<pos, cursorErr>>
       \/ /\ cursorErr' = "ErrRows"
          /\ qpc' = "err"
          /\ UNCHANGED pos
    /\ UNCHANGED <<T, cursorColumns, cursorRows, closeCalls, columns, result,
                   rowFieldMap, mapBuilt, pRes, pErr, qRet, qErr>>
    /\ UNCHANGED <<callNo, txVars, asyncVars>>

\* Helper.go:21-43  item, createFieldMap, scanDest, rows.Scan, append.
\* rows.Scan fails when the rows were closed meanwhile, or when a value
\* cannot be converted to its destination.
ScanRowPrepends ==
    /\ qpc = "scan"
    /\ rowFieldMap' = createFieldMap([typ |-> T, addr |-> <<>>], columns, <<>>)
    /\ mapBuilt' = TRUE
    /\ \E closed \in BOOLEAN :
         IF closed
           THEN /\ pRes' = NilSlice
                /\ pErr' = "ErrRowsClosed"
                /\ qpc' = "parsed"
                /\ UNCHANGED result
         ELSE IF ScanFails(ScanDest(rowFieldMap', columns), cursorRows[pos])
           THEN /\ pRes' = NilSlice
                /\ pErr' = "ErrScan"
                /\ qpc' = "parsed"
                /\ UNCHANGED result
           ELSE /\ result' = [isNil |-> FALSE,
                              elems |-> <<ScanItem(T, columns, cursorRows[pos])>>
                                        \o result.elems]
                /\ qpc' = "next"
                /\ UNCHANGED <<pRes, pErr>>
    /\ UNCHANGED <<T, cursorColumns, cursorRows, pos, cursorErr, closeCalls,
                   columns, qRet, qErr>>
    /\ UNCHANGED <<callNo, txVars, asyncVars>>

ScanRowBindsPerRow ==
    /\ qpc = "scan"
    /\ rowFieldMap' = LET fm == createFieldMap([typ |-> T, addr |-> <<>>], columns, <<>>)
                          bound == {k \in DOMAIN fm :
                                      \A i \in 1..Len(columns) :
                                          columns[i] = k =>
                                            cursorRows[pos][i] # Unconvertible}
                      IN  [k \in bound |-> fm[k]]
    /\ mapBuilt' = TRUE
    /\ \E closed \in BOOLEAN :
         IF closed
           THEN /\ pRes' = NilSlice
                /\ pErr' = "ErrRowsClosed"
                /\ qpc' = "parsed"
                /\ UNCHANGED result
         ELSE IF ScanFails(ScanDest(rowFieldMap', columns), cursorRows[pos])
           THEN /\ pRes' = NilSlice
                /\ pErr' = "ErrScan"
                /\ qpc' = "parsed"
                /\ UNCHANGED result
           ELSE /\ result' = AppendSlice(result,
                                 ScanItem(T, columns, cursorRows[pos]))
                /\ qpc' = "next"
                /\ UNCHANGED <<pRes, pErr>>
    /\ UNCHANGED <<T, cursorColumns, cursorRows, pos, cursorErr, closeCalls,
                   columns, qRet, qErr>>
    /\ UNCHANGED <<callNo, txVars, asyncVars>>

ScanRowSharesItem ==
    /\ qpc = "scan"
    /\ rowFieldMap' = createFieldMap([typ |-> T, addr |-> <<>>], columns, <<>>)
    /\ mapBuilt' = TRUE
    /\ \E closed \in BOOLEAN :
         IF closed
           THEN /\ pRes' = NilSlice
                /\ pErr' = "ErrRowsClosed"
                /\ qpc' = "parsed"
                /\ UNCHANGED result
         ELSE IF ScanFails(ScanDest(rowFieldMap', columns), cursorRows[pos])
           THEN /\ pRes' = NilSlice
                /\ pErr' = "ErrScan"
                /\ qpc' = "parsed"
                /\ UNCHANGED result
           ELSE /\ result' = [isNil |-> FALSE,
                              elems |-> [i \in 1..(Len(result.elems) + 1) |->
                                          ScanItem(T, columns, cursorRows[pos])]]
                /\ qpc' = "next"
                /\ UNCHANGED <<pRes, pErr>>
    /\ UNCHANGED <<T, cursorColumns, cursorRows, pos, cursorErr, closeCalls,
                   columns, qRet, qErr>>
    /\ UNCHANGED <<callNo, txVars, asyncVars>>

ScanRow ==
    /\ qpc = "scan"
    /\ rowFieldMap' = createFieldMap([typ |-> T, addr |-> <<>>], columns, <<>>)
    /\ mapBuilt' = TRUE
    /\ \E closed \in BOOLEAN :
         IF closed
           THEN /\ pRes' = NilSlice
                /\ pErr' = "ErrRowsClosed"
                /\ qpc' = "parsed"
                /\ UNCHANGED result
         ELSE IF ScanFails(ScanDest(rowFieldMap', columns), cursorRows[pos])
           THEN /\ pRes' = NilSlice
                /\ pErr' = "ErrScan"
                /\ qpc' = "parsed"
                /\ UNCHANGED result
           ELSE /\ result' = AppendSlice(result,
                                 ScanItem(T, columns, cursorRows[pos]))
                /\ qpc' = "next"
                /\ UNCHANGED <<pRes, pErr>>
    /\ UNCHANGED <<T, cursorColumns, cursorRows, pos, cursorErr, closeCalls,
                   columns, qRet, qErr>>
    /\ UNCHANGED <<callNo, txVars, asyncVars>>

\* Helper.go:44  return result, rows.Err()
RowsErr ==
    /\ qpc = "err"
    /\ pRes' = result
    /\ pErr' = cursorErr
    /\ qpc' = "parsed"
    /\ UNCHANGED <<T, cursorColumns, cursorRows, pos, cursorErr, closeCalls,
                   columns, result, rowFieldMap, mapBuilt, qRet, qErr>>
    /\ UNCHANGED <<callNo, txVars, asyncVars>>

\* Query.go:34-38 and the deferred rows.Close() of line 33
QueryReturnClosesOnSuccessOnly ==
    /\ qpc = "parsed"
    /\ IF pErr # Nil
         THEN qRet' = NilSlice /\ qErr' = pErr /\ UNCHANGED closeCalls
         ELSE qRet' = pRes /\ qErr' = Nil /\ closeCalls' = closeCalls + 1
    /\ qpc' = "returned"
    /\ UNCHANGED <<T, cursorColumns, cursorRows, pos, cursorErr, columns,
                   result, rowFieldMap, mapBuilt, pRes, pErr>>
    /\ UNCHANGED <<callNo, txVars, asyncVars>>

QueryReturnPassesResult ==
    /\ qpc = "parsed"
    /\ qRet' = pRes
    /\ qErr' = pErr
    /\ closeCalls' = closeCalls + 1
    /\ qpc' = "returned"
    /\ UNCHANGED <<T, cursorColumns, cursorRows, pos, cursorErr, columns,
                   result, rowFieldMap, mapBuilt, pRes, pErr>>
    /\ UNCHANGED <<callNo, txVars, asyncVars>>

QueryReturn ==
    /\ qpc = "parsed"
    /\ IF pErr # Nil
         THEN qRet' = NilSlice /\ qErr' = pErr
         ELSE qRet' = pRes /\ qErr' = Nil
    /\ closeCalls' = closeCalls + 1
    /\ qpc' = "returned"
    /\ UNCHANGED <<T, cursorColumns, cursorRows, pos, cursorErr, columns,
                   result, rowFieldMap, mapBuilt, pRes, pErr>>
    /\ UNCHANGED <<callNo, txVars, asyncVars>>

(***************************************************************************)
(* QueryAsync (Query.go) and ExecuteInTransactionAsync (part_002).         *)
(* async.Do(ctx, fn) starts fn on a goroutine of its own, returns the      *)
(* async.Result to the caller at once, and sends fn's (value, error) on it *)
(* when fn has returned.                                                   *)
(***************************************************************************)
\* Query.go:52-59  the closure handed to async.Do calls Query with the
\* arguments of QueryAsync
QueryAsyncRunsInline ==
    /\ qpc = "async"
    /\ qpc' = "start"
    /\ handle' = FALSE
    /\ UNCHANGED <<mode, delivered, txVars>>
    /\ UNCHANGED <<T, cursorColumns, cursorRows, pos, cursorErr, closeCalls,
                   columns, result, rowFieldMap, mapBuilt, callNo, pRes, pErr,
                   qRet, qErr>>

QueryAsync ==
    /\ qpc = "async"
    /\ qpc' = "start"
    /\ handle' = TRUE
    /\ UNCHANGED <<mode, delivered, txVars>>
    /\ UNCHANGED <<T, cursorColumns, cursorRows, pos, cursorErr, closeCalls,
                   columns, result, rowFieldMap, mapBuilt, callNo, pRes, pErr,
                   qRet, qErr>>

\* part_002:99-106  the closure handed to async.Do calls
\* ExecuteInTransaction with the arguments of ExecuteInTransactionAsync
ExecuteInTransactionAsync ==
    /\ tpc = "async"
    /\ tpc' = "start"
    /\ handle' = TRUE
    /\ UNCHANGED <<mode, delivered, qVars>>
    /\ UNCHANGED <<opts, tsf, txOpts, txState, calls, r, retVal, retErr,
                   panicking, pending, committed>>

\* async.Do: the closure has returned, its result is sent on the
\* async.Result.
DeliverQuery ==
    /\ mode = "async"
    /\ qpc = "returned"
    /\ delivered = <<>>
    /\ delivered' = <<[value |-> qRet, err |-> qErr]>>
    /\ UNCHANGED <<mode, handle, txVars, qVars>>

DeliverTx ==
    /\ mode = "async"
    /\ tpc = "returned"
    /\ delivered = <<>>
    /\ delivered' = <<[value |-> retVal, err |-> retErr]>>
    /\ UNCHANGED <<mode, handle, txVars, qVars>>

(***************************************************************************)
(* One call is in progress: an ExecuteInTransaction, or a Query, which may  *)
(* be followed by further Query calls.                                     *)
(***************************************************************************)
\* Query.go:28  the caller calls Query again, for the same record shape and
\* with a query that gives the same columns.
QueryAgain ==
    /\ mode = "sync"
    /\ qpc = "returned"
    /\ callNo < MaxCalls
    /\ callNo' = callNo + 1
    /\ qpc' = "start"
    /\ cursorRows' = <<>>
    /\ pos' = 0
    /\ cursorErr' = Nil
    /\ closeCalls' = 0
    /\ columns' = <<>>
    /\ result' = NilSlice
    /\ pRes' = NilSlice
    /\ pErr' = Nil
    /\ qRet' = NilSlice
    /\ qErr' = Nil
    /\ UNCHANGED <<T, cursorColumns, rowFieldMap, mapBuilt>>
    /\ UNCHANGED <<txVars, asyncVars>>

Init == InitTx \/ InitQ

Next ==
    \/ BeginTx
    \/ RunScope
    \/ Commit
    \/ DeferredRollback
    \/ QueryContext
    \/ Columns
    \/ NextRow
    \/ ScanRow
    \/ RowsErr
    \/ QueryReturn
    \/ QueryAgain
    \/ QueryAsync
    \/ ExecuteInTransactionAsync
    \/ DeliverQuery
    \/ DeliverTx

Spec == Init /\ [][Next]_vars

(***************************************************************************)
(* Helpers for the properties                                              *)
(***************************************************************************)
RECURSIVE Count(_, _)
Count(s, x) == IF s = <<>> THEN 0
               ELSE (IF Head(s) = x THEN 1 ELSE 0) + Count(Tail(s), x)

Began == txState # "NoTx"
TxTerminal == txState \in {"Committed", "CommitFailed", "RolledBack"}
CommitFailedInRun == Count(calls, "Commit") > 0 /\ txState # "Committed"

\* C1 (as stated): when ExecuteInTransaction returns after a successful
\* BeginTx, exactly one of Commit and Rollback has been invoked, exactly once.
C1_ExactlyOneOfCommitRollback ==
    (tpc = "returned" /\ Began) =>
        Count(calls, "Commit") + Count(calls, "Rollback") = 1

\* C1 (amended): when ExecuteInTransaction returns after a successful
\* BeginTx, Rollback has been invoked exactly once, and Commit exactly once
\* if the scope function returned no error and not at all otherwise.
C1_RollbackOnceCommitAtMostOnce ==
    /\ Count(calls, "Commit") <= 1
    /\ Count(calls, "Rollback") <= 1
    /\ (tpc = "returned" /\ Began) =>
          /\ Count(calls, "Rollback") = 1
          /\ Count(calls, "Commit") = (IF tsf.err = Nil THEN 1 ELSE 0)

C1_Witness ==
    /\ tpc = "returned"
    /\ txState = "Committed"
    /\ calls = <<"BeginTx", "tsf", "Commit", "Rollback">>

\* C2: once BeginTx has returned a handle, the handle is closed (committed,
\* rolled back, or closed by a failed commit) when control leaves
\* ExecuteInTransaction, by return or by a panic of the scope function; on
\* the panic path Rollback has been invoked before the panic propagates.
C2_HandleTerminalOnExit ==
    /\ (tpc \in {"returned", "panicked"} /\ Began) => TxTerminal
    /\ tpc = "panicked" =>
          /\ Count(calls, "Rollback") = 1
          /\ txState = "RolledBack"
          /\ pending = 0 /\ committed = 0

C2_Witness ==
    /\ tpc = "panicked"
    /\ tsf.panics /\ tsf.writes > 0
    /\ txState = "RolledBack"

\* C3: if the scope function returns a non-nil error, Commit is never
\* called, Rollback is called, and ExecuteInTransaction returns exactly that
\* error with the zero value of T.
C3_ScopeErrorRollsBack ==
    (Began /\ ~tsf.panics /\ tsf.err # Nil) =>
        /\ Count(calls, "Commit") = 0
        /\ txState # "Committed" /\ committed = 0
        /\ tpc = "returned" =>
              /\ Count(calls, "Rollback") = 1
              /\ txState = "RolledBack"
              /\ retErr = tsf.err
              /\ retVal = ZeroT

C3_Witness ==
    /\ tpc = "returned"
    /\ tsf.err = "ErrScopeB" /\ tsf.val # ZeroT /\ tsf.writes > 0
    /\ retErr = "ErrScopeB" /\ retVal = ZeroT
    /\ txState = "RolledBack"

\* C4: if the scope function succeeds and Commit fails, ExecuteInTransaction
\* returns the commit error with the zero value of T, and Rollback has been
\* invoked before it returns.
C4_CommitFailureSurfaced ==
    (tpc = "returned" /\ CommitFailedInRun) =>
        /\ retErr = "ErrCommit"
        /\ retVal = ZeroT
        /\ Count(calls, "Rollback") = 1
        /\ committed = 0

C4_Witness ==
    /\ tpc = "returned"
    /\ CommitFailedInRun
    /\ tsf.val # ZeroT
    /\ retErr = "ErrCommit"
    /\ calls = <<"BeginTx", "tsf", "Commit", "Rollback">>

\* C5: if BeginTx fails, ExecuteInTransaction returns that error with the
\* zero value of T at once: the scope function is never invoked and neither
\* Commit nor Rollback is called.
C5_BeginFailureIsTerminal ==
    (~Began /\ tpc \notin {"idle", "async", "start"}) =>
        /\ tpc = "returned"
        /\ retErr = "ErrBegin"
        /\ retVal = ZeroT
        /\ calls = <<"BeginTx">>
        /\ pending = 0 /\ committed = 0

C5_Witness ==
    /\ tpc = "returned"
    /\ ~Began
    /\ retErr = "ErrBegin"
    /\ tsf.writes > 0

\* C6: ExecuteInTransaction returns a nil error exactly when BeginTx
\* succeeded, the scope function returned no error and Commit succeeded;
\* then the returned value is the scope function's result and the handle
\* ends Committed (the deferred Rollback does not change it).
C6_NilErrorIffCommitted ==
    tpc = "returned" =>
        /\ retErr = Nil <=> txState = "Committed"
        /\ txState = "Committed" =>
              /\ ~tsf.panics /\ tsf.err = Nil
              /\ calls = <<"BeginTx", "tsf", "Commit", "Rollback">>
              /\ retVal = tsf.val
              /\ committed = tsf.writes

C6_Witness ==
    /\ tpc = "returned"
    /\ retErr = Nil
    /\ retVal = MaxVal
    /\ txState = "Committed"
    /\ Count(calls, "Rollback") = 1

\* C7: when QueryContext returned a cursor, Query calls rows.Close() exactly
\* once, when it returns, whatever the exit path (Columns failure, scan
\* failure, cursor error, success); when QueryContext failed, nothing is
\* closed and its error is returned.
C7_CursorClosedExactlyOnce ==
    /\ closeCalls <= 1
    /\ qpc # "returned" => closeCalls = 0
    /\ qpc = "returned" =>
          IF qErr = "ErrQuery"
            THEN closeCalls = 0 /\ pos = 0 /\ columns = <<>>
            ELSE closeCalls = 1

C7_Witness ==
    /\ qpc = "returned"
    /\ qErr = "ErrScan"
    /\ pos = 2
    /\ closeCalls = 1

\* C8: whenever Query returns a non-nil error, the returned slice is nil and
\* holds none of the rows already scanned.
C8_NoPartialResults ==
    (qpc = "returned" /\ qErr # Nil) => qRet = NilSlice

C8_Witness ==
    /\ qpc = "returned"
    /\ qErr = "ErrRows"
    /\ Len(result.elems) = 1
    /\ pRes = result
    /\ qRet = NilSlice

\* Rows the cursor yielded before a scan failure.
RowsBeforeFailure ==
    IF pErr \in {"ErrScan", "ErrRowsClosed"} THEN pos - 1 ELSE pos

\* C9 (as stated): for all row sets and shapes the collection Query returns
\* has as many records as rows were yielded before any scan failure, the
\* i-th being the record scanned from the i-th row.
C9_LengthEqualsRowsYielded ==
    qpc = "returned" =>
        /\ Len(qRet.elems) = RowsBeforeFailure
        /\ \A i \in 1..Len(qRet.elems) :
              qRet.elems[i] = ScanItem(T, cursorColumns, cursorRows[i])

\* C9 (amended): when Query returns a nil error, the collection has one
\* record per row of the cursor, the i-th being the record scanned from the
\* i-th row; while rows are being read the accumulated collection holds the
\* records of the rows scanned so far, in cursor order.
C9_OrderPreservedOnSuccess ==
    /\ (qpc = "returned" /\ qErr = Nil) =>
          /\ pos = Len(cursorRows)
          /\ Len(qRet.elems) = pos
          /\ \A i \in 1..pos :
                qRet.elems[i] = ScanItem(T, cursorColumns, cursorRows[i])
    /\ qpc \in {"next", "err"} =>
          /\ Len(result.elems) = pos
          /\ \A i \in 1..pos :
                result.elems[i] = ScanItem(T, cursorColumns, cursorRows[i])

C9_Witness ==
    /\ qpc = "returned"
    /\ qErr = Nil
    /\ T = User
    /\ cursorRows = <<<<1, 2>>, <<2, 1>>>>
    /\ Len(qRet.elems) = 2
    /\ qRet.elems[1][<<1>>] = 1 /\ qRet.elems[1][<<2>>] = 2
    /\ qRet.elems[2][<<1>>] = 2 /\ qRet.elems[2][<<2>>] = 1

\* C10: when the query succeeds and the cursor yields no row, Query returns
\* an empty, non-nil collection and a nil error.
C10_EmptyNotNil ==
    (qpc = "returned" /\ qErr = Nil /\ pos = 0) =>
        /\ qRet.elems = <<>>
        /\ ~qRet.isNil

\* The columns of the cursor that are scanned into field a, given the
\* bindings of the current call.
ColumnsOf(a) ==
    {i \in 1..Len(columns) :
        columns[i] \in DOMAIN rowFieldMap /\ rowFieldMap[columns[i]] = a}

\* The value field a must hold after the scan of a row: that of the last
\* column bound to it, the zero value when no column is.
FieldAfterScan(a, row) ==
    IF ColumnsOf(a) = {} THEN 0
    ELSE row[CHOOSE i \in ColumnsOf(a) : \A j \in ColumnsOf(a) : j <= i]

\* C11: a cursor column whose name is no resolved column name of the record
\* shape is scanned into a discarded destination: a scan error always comes
\* from a column bound to a field, every field of every record holds the
\* value of a column bound to it, and a field without such a column is zero.
C11_UnmappedColumnsIgnored ==
    /\ pErr = "ErrScan" =>
          \E i \in 1..Len(columns) :
              /\ columns[i] \in DOMAIN rowFieldMap
              /\ cursorRows[pos][i] = Unconvertible
    /\ \A k \in 1..Len(result.elems) :
          \A a \in DOMAIN result.elems[k] :
              result.elems[k][a] = FieldAfterScan(a, cursorRows[k])

C11_Witness ==
    /\ qpc = "returned"
    /\ qErr = Nil
    /\ T = User
    /\ columns = <<<<"e", "x", "t", "r", "a">>, <<"i", "d">>>>
    /\ cursorRows = <<<<Unconvertible, 2>>>>
    /\ Len(qRet.elems) = 1
    /\ qRet.elems[1][<<1>>] = 2
    /\ qRet.elems[1][<<2>>] = 0

\* The tag of a field if it has one, else its lower-cased name.
NamePart(f) == IF f.tag # <<>> THEN f.tag ELSE ToLower(f.name)

\* The column name of the leaf at address addr of a record of type typ: the
\* name parts of the named fields on the way to the leaf, joined by "_";
\* an embedded record on the way adds nothing.
RECURSIVE ColumnNameAt(_, _)
ColumnNameAt(typ, addr) ==
    LET f == typ[Head(addr)]
    IN  IF Len(addr) = 1 THEN NamePart(f)
        ELSE IF f.anonymous THEN ColumnNameAt(f.fields, Tail(addr))
        ELSE NamePart(f) \o <<"_">> \o ColumnNameAt(f.fields, Tail(addr))

\* Every field on the way to addr, addr included, can be set.
RECURSIVE CanSetAt(_, _)
CanSetAt(typ, addr) ==
    /\ typ[Head(addr)].settable
    /\ Len(addr) > 1 => CanSetAt(typ[Head(addr)].fields, Tail(addr))

SettableLeaves(typ) == {a \in LeafAddrs(typ, <<>>) : CanSetAt(typ, a)}

C13_AddressStreetPopulated ==
    ( /\ qpc = "returned"
      /\ qErr = Nil
      /\ T = UserWithAddress
      /\ columns = << <<"i", "d">>,
                      <<"a", "d", "d", "r", "e", "s", "s", "_",
                        "s", "t", "r", "e", "e", "t">> >>
      /\ cursorRows = <<<<1, 2>>>> )
    => /\ Len(qRet.elems) = 1
       /\ qRet.elems[1][<<1>>] = 1
       /\ qRet.elems[1][<<2, 1>>] = 2

C16_FreshRecordPerRow ==
    [][(qpc = "scan" /\ qpc' = "next") =>
          /\ Len(result'.elems) = Len(result.elems) + 1
          /\ \A i \in 1..Len(result.elems) :
                result'.elems[i] = result.elems[i]
          /\ LET item == result'.elems[Len(result'.elems)]
             IN  \A a \in DOMAIN item :
                     (\A i \in 1..Len(columns) :
                         ~ /\ columns[i] \in DOMAIN rowFieldMap'
                           /\ rowFieldMap'[columns[i]] = a)
                     => item[a] = 0]_vars

C16_Witness ==
    /\ qpc = "next"
    /\ pos = 2
    /\ T = Dup
    /\ columns = <<<<"e", "x", "t", "r", "a">>, <<"i", "d">>>>
    /\ result.elems[1][<<2>>] = 1 /\ result.elems[1][<<1, 1>>] = 0
    /\ result.elems[2][<<2>>] = 2 /\ result.elems[2][<<1, 1>>] = 0

\* s is an initial part of t.
IsPrefix(s, t) == Len(s) <= Len(t) /\ SubSeq(t, 1, Len(s)) = s

\* C17: within one ExecuteInTransaction the calls are made in the order
\* BeginTx, scope function, Commit, Rollback; Commit is made only after the
\* scope function returned without error, and Rollback only once the scope
\* function's outcome and, on success, the outcome of Commit are known.
C17_CallOrder ==
    /\ \/ IsPrefix(calls, <<"BeginTx", "tsf", "Commit", "Rollback">>)
       \/ IsPrefix(calls, <<"BeginTx", "tsf", "Rollback">>)
    /\ Count(calls, "Commit") > 0 =>
          /\ ~tsf.panics /\ tsf.err = Nil
          /\ r = tsf.val
          /\ tpc \in {"deferred", "returned"}
    /\ Count(calls, "Rollback") > 0 =>
          /\ tpc \in {"returned", "panicked"}
          /\ \/ tsf.panics
             \/ tsf.err # Nil /\ retErr = tsf.err
             \/ Count(calls, "Commit") = 1 /\ retErr \in {Nil, "ErrCommit"}

C17_Witness ==
    /\ tpc = "returned"
    /\ tsf.err = "ErrScopeA"
    /\ calls = <<"BeginTx", "tsf", "Rollback">>

\* Address a comes before address b in depth-first declaration order.
RECURSIVE Before(_, _)
Before(a, b) ==
    IF a = <<>> \/ b = <<>> THEN a = <<>> /\ b # <<>>
    ELSE IF Head(a) # Head(b) THEN Head(a) < Head(b)
    ELSE Before(Tail(a), Tail(b))

\* The settable leaves of typ that resolve to column name k.
LeavesNamed(typ, k) == {a \in SettableLeaves(typ) : ColumnNameAt(typ, a) = k}

\* C18: when several settable leaves resolve to one column name, the
\* bindings hold that name once, bound to the leaf that comes last in
\* depth-first declaration order; in every record the other leaves of that
\* name are at their zero value.
C18_LastDuplicateWins ==
    mapBuilt =>
        /\ \A k \in DOMAIN rowFieldMap :
              /\ rowFieldMap[k] \in LeavesNamed(T, k)
              /\ \A a \in LeavesNamed(T, k) \ {rowFieldMap[k]} :
                    Before(a, rowFieldMap[k])
        /\ \A n \in 1..Len(result.elems) :
              \A a \in SettableLeaves(T) :
                  a # rowFieldMap[ColumnNameAt(T, a)] => result.elems[n][a] = 0

C18_Witness ==
    /\ qpc = "returned"
    /\ qErr = Nil
    /\ T = Twin
    /\ columns[1] = <<"i", "d">>
    /\ Len(qRet.elems) = 1
    /\ rowFieldMap[<<"i", "d">>] = <<2, 1>>
    /\ qRet.elems[1][<<2, 1>>] = 2
    /\ qRet.elems[1][<<1>>] = 0

====
